---- MODULE Spec2Model ----
(***************************************************************************)
(* A model of Blob (src/blob.c), a line-oriented text editor.  The buffer  *)
(* is a doubly linked list of struct line records; each line owns a chain  *)
(* of struct character records, kept here as the sequence of its bytes.    *)
(* Line records are heap cells addressed by 1..MaxId; NULL is 0.           *)
(***************************************************************************)
EXTENDS Integers, Sequences, FiniteSets, TLC

\* ------------------------------------------------------------- bounds
MaxFileLen == 2      \* bytes in the file the editor is started on
MaxCmdLen  == 2      \* command characters in one command line
MaxId      == 4      \* line records one process may allocate
MaxConvLen == 3      \* bytes of text in a line given to the converters

\* ------------------------------------------------------------- constants
NULL         == 0
EXIT_SUCCESS == 0
EXIT_FAILURE == 1
NL           == "\n"
NUL          == "NUL"
SPACE        == " "
PROMPT       == <<":", " ">>

\* fopen() fails with ENOENT: the file does not exist
NoFile == <<"ENOENT">>

FileChars == {"a", NL}
\* The lines of text typed in insertion mode
InsLines  == {<<>>, <<"b">>}
ConvChars == {"a", "b", SPACE}

\* All sequences over S of length at most n
SeqUpTo(S, n) == UNION {[1..k -> S] : k \in 0..n}

\* ------------------------------------------------------------- pure functions

\* The for loop of charray_to_line: one filled character per byte of src
\* before the first newline or NUL; returns <<filled characters, rest of src>>
RECURSIVE charray_scan(_, _)
charray_scan(src, chars) ==
    IF Head(src) # NL /\ Head(src) # NUL
    THEN charray_scan(Tail(src), Append(chars, Head(src)))
    ELSE <<chars, src>>

\* charray_to_line with the last, unfilled character always unlinked
charray_to_line_nospace(src) ==
    charray_scan(src, <<>>)[1]

\* charray_to_line: the chain built from the C string src.  After the loop the
\* last character of the chain is still unfilled: it is set to a space when
\* the scan stopped on a newline or NUL, and unlinked otherwise.
charray_to_line(src) ==
    LET r == charray_scan(src, <<>>)
    IN  IF Head(r[2]) = NL \/ Head(r[2]) = NUL
        THEN Append(r[1], SPACE)
        ELSE r[1]

\* lines_to_charray: the bytes of the chain, then '\n', then the terminator
lines_to_charray(chain) ==
    chain \o <<NL, NUL>>

\* What "%s" writes of a C string: the bytes before the first NUL
RECURSIVE CStr(_)
CStr(buf) ==
    IF buf = <<>> \/ Head(buf) = NUL THEN <<>>
    ELSE <<Head(buf)>> \o CStr(Tail(buf))

\* getline() on a stream: the bytes up to and including the first newline,
\* or all that is left when there is none
RECURSIVE TakeLine(_)
TakeLine(bytes) ==
    IF bytes = <<>> THEN <<>>
    ELSE IF Head(bytes) = NL THEN <<NL>>
    ELSE <<Head(bytes)>> \o TakeLine(Tail(bytes))

\* The while loop of read_lines: one chain per getline() that succeeds
RECURSIVE read_loop(_)
read_loop(stream) ==
    IF stream = <<>> THEN <<>>
    ELSE LET ln == TakeLine(stream)
         IN  <<charray_to_line(ln \o <<NUL>>)>>
               \o read_loop(SubSeq(stream, Len(ln) + 1, Len(stream)))

\* ------------------------------------------------------------- state
VARIABLES
    file,            \* bytes of the file FILE_NAME, or NoFile
    lnext, lprev,    \* struct line: next, prev
    ldata,           \* struct line: data, the character chain
    nextId,          \* the next record MALLOC returns
    freed,           \* records given to free()
    start, lines,    \* main: start, lines (the current line)
    stop_insertion,  \* the flag set by sigint_handler
    pc,              \* where the process is
    s,               \* run_instructions: command characters from *s to the end of the line
    stdin_eof,       \* standard input has reached end-of-input
    new_line,        \* insert_line: new_line
    buffer,          \* insert_line: buffer, the line getline() returned
    ret,             \* what run_instructions returned to main, once it has
    out,             \* what the last step wrote to standard output
    deleted,         \* history: <<line, its prev, its next>> when the last step deleted a line
    exit_status,     \* the status given to exit()
    exit_at,         \* history: the call of exit() that ended the process
    wrote, written,  \* history: 'w' has run; the chains of the buffer it wrote
    sess_cur,        \* history: current when the insertion session began
    sess_buf,        \* history: the records of the buffer when the session began
    sess_pre,        \* history: stop_insertion when the insertion session began
    sess_sig,        \* history: an interrupt arrived during the session
    committed,       \* history: <<record, typed line>> of each line the session committed
    dropped,         \* history: the record whose line the session discarded
    conv_pc, conv_L, conv_term, conv_chain, conv_text   \* the converters on their own

heap == <<lnext, lprev, ldata, nextId, freed>>
proc == <<heap, start, lines, stop_insertion, s, new_line, buffer, ret>>
sess == <<sess_cur, sess_buf, sess_pre, sess_sig, committed, dropped>>
io   == <<out, deleted>>
hist == <<wrote, written, sess>>
conv == <<conv_pc, conv_L, conv_term, conv_chain, conv_text>>
vars == <<file, proc, pc, stdin_eof, io, exit_status, exit_at, hist, conv>>

Ids == 1..MaxId

\* The records reached from l by following next, at most fuel of them
RECURSIVE Walk(_, _, _)
Walk(nx, l, fuel) ==
    IF l = NULL \/ fuel = 0 THEN <<>>
    ELSE <<l>> \o Walk(nx, nx[l], fuel - 1)

Range(q) == {q[i] : i \in 1..Len(q)}

\* The buffer: the records from start, and their chains
BufferIds  == Walk(lnext, start, MaxId)
BufferText == [i \in 1..Len(BufferIds) |-> ldata[BufferIds[i]]]

\* lines_to_handle: every line from l on, as lines_to_charray gives it, written with "%s"
RECURSIVE lines_to_handle(_, _, _)
lines_to_handle(nx, dt, l) ==
    IF l = NULL THEN <<>>
    ELSE CStr(lines_to_charray(dt[l])) \o lines_to_handle(nx, dt, nx[l])

\* print_line: the characters of the line, if there is one, then a newline
print_line(dt, l) ==
    (IF l # NULL THEN dt[l] ELSE <<>>) \o <<NL>>

\* free(): the contents of a freed record are no longer defined, and the
\* model keeps none
Scrub(f, gone, v) == [i \in Ids |-> IF i \in gone THEN v ELSE f[i]]

\* destroy_lines: every record from l on is destroyed
destroy_lines(nx, l) == Range(Walk(nx, l, MaxId))

\* ------------------------------------------------------------- startup

\* What a step wrote; it deleted no line
Says(bytes) ==
    /\ out' = bytes
    /\ deleted' = <<>>

NoSession ==
    /\ sess_cur' = NULL
    /\ sess_buf' = <<>>
    /\ sess_pre' = 0
    /\ sess_sig' = FALSE
    /\ committed' = <<>>
    /\ dropped' = NULL

\* A process that has run nothing yet
Fresh ==
    /\ lnext = [i \in Ids |-> NULL]
    /\ lprev = [i \in Ids |-> NULL]
    /\ ldata = [i \in Ids |-> <<>>]
    /\ nextId = 1
    /\ freed = {}
    /\ start = NULL
    /\ lines = NULL
    /\ stop_insertion = 0
    /\ s = 0
    /\ stdin_eof = FALSE
    /\ new_line = NULL
    /\ buffer = <<>>
    /\ ret = <<>>
    /\ out = <<>>
    /\ deleted = <<>>
    /\ exit_status = <<>>
    /\ exit_at = ""
    /\ wrote = FALSE
    /\ written = <<>>
    /\ sess_cur = NULL
    /\ sess_buf = <<>>
    /\ sess_pre = 0
    /\ sess_sig = FALSE
    /\ committed = <<>>
    /\ dropped = NULL

\* The editor is started on a file, or on the name of a file that does not exist
Init ==
    /\ file \in SeqUpTo(FileChars, MaxFileLen) \cup {NoFile}
    /\ pc = "main"
    /\ Fresh
    /\ conv_pc = "off"
    /\ conv_L = <<>>
    /\ conv_term = <<>>
    /\ conv_chain = <<>>
    /\ conv_text = <<>>

\* read_lines without the test of lines_read: when no line was read the record
\* allocated before the loop is kept as the only line
read_lines_keep_first(bytes) ==
    LET chains == read_loop(bytes)
        n      == Len(chains)
    IN  IF n = 0
        THEN [lnext |-> [i \in Ids |-> NULL], lprev |-> [i \in Ids |-> NULL],
              ldata |-> [i \in Ids |-> <<>>], nextId |-> 2, freed |-> {},
              dest |-> 1]
        ELSE [lnext |-> [i \in Ids |-> IF i < n THEN i + 1 ELSE NULL],
              lprev |-> [i \in Ids |-> IF i <= n THEN i - 1 ELSE NULL],
              ldata |-> [i \in Ids |-> IF i <= n THEN chains[i] ELSE <<>>],
              nextId |-> n + 2, freed |-> {n + 1},
              dest |-> 1]

\* read_lines: the heap and *dest after loading the bytes of the file.  One
\* record is allocated before the loop and one more after each line read; the
\* record left over is freed (the only record, when no line was read).
read_lines(bytes) ==
    LET chains == read_loop(bytes)
        n      == Len(chains)
    IN  IF n = 0
        THEN [lnext |-> [i \in Ids |-> NULL], lprev |-> [i \in Ids |-> NULL],
              ldata |-> [i \in Ids |-> <<>>], nextId |-> 2, freed |-> {1},
              dest |-> NULL]
        ELSE [lnext |-> [i \in Ids |-> IF i < n THEN i + 1 ELSE NULL],
              lprev |-> [i \in Ids |-> IF i <= n THEN i - 1 ELSE NULL],
              ldata |-> [i \in Ids |-> IF i <= n THEN chains[i] ELSE <<>>],
              nextId |-> n + 2, freed |-> {n + 1},
              dest |-> 1]

\* The bytes fopen(fname, "r") gives: a missing file is created empty
FileBytes == IF file = NoFile THEN <<>> ELSE file

\* main, up to the first prompt: install the handler, load the file
ReadLines ==
    /\ pc = "main"
    /\ Len(read_loop(FileBytes)) + 1 <= MaxId
    /\ LET r == read_lines(FileBytes)
       IN  /\ lnext' = r.lnext
           /\ lprev' = r.lprev
           /\ ldata' = r.ldata
           /\ nextId' = r.nextId
           /\ freed' = r.freed
           /\ lines' = r.dest
           /\ start' = r.dest
    /\ file' = FileBytes
    /\ pc' = "prompt"
    /\ UNCHANGED <<stop_insertion, s, stdin_eof, new_line, buffer, ret, io,
                   exit_status, exit_at, hist, conv>>

\* ------------------------------------------------------------- the prompt loop

\* exit(status) called at `at`: the process and its memory are gone
Exit(status, at) ==
    /\ pc' = "done"
    /\ exit_status' = <<status>>
    /\ exit_at' = at
    /\ lnext' = [i \in Ids |-> NULL]
    /\ lprev' = [i \in Ids |-> NULL]
    /\ ldata' = [i \in Ids |-> <<>>]
    /\ nextId' = 1
    /\ freed' = {}
    /\ start' = NULL
    /\ lines' = NULL
    /\ stop_insertion' = 0
    /\ s' = 0
    /\ new_line' = NULL
    /\ buffer' = <<>>
    /\ ret' = <<>>
    /\ NoSession

\* main: the prompt is written and getline() returns a command line of n
\* command characters, ended by a newline or by end-of-input
MainGetline ==
    /\ pc = "prompt"
    /\ ~stdin_eof
    /\ \E n \in 0..MaxCmdLen, nl \in BOOLEAN :
          /\ (~nl) => n > 0
          /\ s' = n
          /\ stdin_eof' = ~nl
    /\ Says(PROMPT)
    /\ pc' = "scan"
    /\ ret' = <<>>
    /\ UNCHANGED <<file, heap, start, lines, stop_insertion, new_line, buffer,
                   exit_status, exit_at, hist, conv>>

\* MainEof with end-of-input at the prompt taken for a clean quit
MainEofSuccess ==
    /\ pc = "prompt"
    /\ Says(PROMPT)
    /\ Exit(EXIT_SUCCESS, "prompt")
    /\ stdin_eof' = TRUE
    /\ UNCHANGED <<file, wrote, written, conv>>

\* main: the prompt is written and getline() fails: exit(EXIT_FAILURE)
MainEof ==
    /\ pc = "prompt"
    /\ Says(PROMPT)
    /\ Exit(EXIT_FAILURE, "prompt")
    /\ stdin_eof' = TRUE
    /\ UNCHANGED <<file, wrote, written, conv>>

\* main, at end: the buffer has been destroyed; exit(EXIT_SUCCESS)
MainEnd ==
    /\ pc = "end"
    /\ Says(<<>>)
    /\ Exit(EXIT_SUCCESS, "end")
    /\ UNCHANGED <<file, stdin_eof, wrote, written, conv>>

\* ------------------------------------------------------------- run_instructions

\* The for loop is at a command character.  Which one is the user's choice:
\* each case of the switch is an action of its own.
Scanning == pc = "scan" /\ s > 0

\* break: the for loop goes on with the next character
Advance ==
    /\ s' = s - 1
    /\ pc' = "scan"

\* return r: the rest of the line is left unscanned, main writes msg and
\* prompts again
Return(r, msg) ==
    /\ ret' = <<r>>
    /\ Says(msg)
    /\ pc' = "prompt"
    /\ UNCHANGED s

\* The scan reached the newline or the end of the string: return 0
ScanEnd ==
    /\ pc = "scan"
    /\ s = 0
    /\ Return(0, <<>>)
    /\ NoSession
    /\ UNCHANGED <<file, heap, start, lines, stop_insertion, stdin_eof, new_line,
                   buffer, exit_status, exit_at, wrote, written, conv>>

\* CmdN without the test for a last line
CmdNNoCheck ==
    /\ Scanning
    /\ IF lines = NULL
       THEN /\ Return(-1, <<"E", "O", "F">>)
            /\ UNCHANGED lines
       ELSE /\ lines' = lnext[lines]
            /\ Advance
            /\ Says(<<>>)
            /\ UNCHANGED ret
    /\ NoSession
    /\ UNCHANGED <<file, heap, start, stop_insertion, stdin_eof, new_line, buffer,
                   exit_status, exit_at, wrote, written, conv>>

\* case 'n'
CmdN ==
    /\ Scanning
    /\ IF lines = NULL \/ lnext[lines] = NULL
       THEN /\ Return(-1, <<"E", "O", "F">>)
            /\ UNCHANGED lines
       ELSE /\ lines' = lnext[lines]
            /\ Advance
            /\ Says(<<>>)
            /\ UNCHANGED ret
    /\ NoSession
    /\ UNCHANGED <<file, heap, start, stop_insertion, stdin_eof, new_line, buffer,
                   exit_status, exit_at, wrote, written, conv>>

\* CmdB with a break where the failure returns
CmdBBreak ==
    /\ Scanning
    /\ IF lines = NULL \/ lprev[lines] = NULL
       THEN /\ ret' = <<-2>>
            /\ Says(<<"S", "T", "A", "R", "T">>)
            /\ Advance
            /\ UNCHANGED lines
       ELSE /\ lines' = lprev[lines]
            /\ Advance
            /\ Says(<<>>)
            /\ UNCHANGED ret
    /\ NoSession
    /\ UNCHANGED <<file, heap, start, stop_insertion, stdin_eof, new_line, buffer,
                   exit_status, exit_at, wrote, written, conv>>

\* case 'b'
CmdB ==
    /\ Scanning
    /\ IF lines = NULL \/ lprev[lines] = NULL
       THEN /\ Return(-2, <<"S", "T", "A", "R", "T">>)
            /\ UNCHANGED lines
       ELSE /\ lines' = lprev[lines]
            /\ Advance
            /\ Says(<<>>)
            /\ UNCHANGED ret
    /\ NoSession
    /\ UNCHANGED <<file, heap, start, stop_insertion, stdin_eof, new_line, buffer,
                   exit_status, exit_at, wrote, written, conv>>

\* case 'p'
CmdP ==
    /\ Scanning
    /\ Says(print_line(ldata, lines))
    /\ Advance
    /\ NoSession
    /\ UNCHANGED <<file, heap, start, lines, stop_insertion, stdin_eof, new_line,
                   buffer, ret, exit_status, exit_at, wrote, written, conv>>

\* case 'l'
CmdL ==
    /\ Scanning
    /\ Says(lines_to_handle(lnext, ldata, start))
    /\ Advance
    /\ NoSession
    /\ UNCHANGED <<file, heap, start, lines, stop_insertion, stdin_eof, new_line,
                   buffer, ret, exit_status, exit_at, wrote, written, conv>>

\* CmdW with a return where it breaks: the file is written and the rest of
\* the command line is left unscanned
CmdWReturn ==
    /\ Scanning
    /\ file' = lines_to_handle(lnext, ldata, start)
    /\ wrote' = TRUE
    /\ written' = BufferText
    /\ Return(-4, <<>>)
    /\ NoSession
    /\ UNCHANGED <<heap, start, lines, stop_insertion, stdin_eof, new_line, buffer,
                   exit_status, exit_at, conv>>

\* case 'w': write_lines truncates the file and writes the buffer
CmdW ==
    /\ Scanning
    /\ file' = lines_to_handle(lnext, ldata, start)
    /\ wrote' = TRUE
    /\ written' = BufferText
    /\ Says(<<>>)
    /\ Advance
    /\ NoSession
    /\ UNCHANGED <<heap, start, lines, stop_insertion, stdin_eof, new_line, buffer,
                   ret, exit_status, exit_at, conv>>

\* case 'h': usage() writes to standard error
CmdH ==
    /\ Scanning
    /\ Says(<<>>)
    /\ Advance
    /\ NoSession
    /\ UNCHANGED <<file, heap, start, lines, stop_insertion, stdin_eof, new_line,
                   buffer, ret, exit_status, exit_at, wrote, written, conv>>

\* default: continue
CmdDefault ==
    /\ Scanning
    /\ Says(<<>>)
    /\ Advance
    /\ NoSession
    /\ UNCHANGED <<file, heap, start, lines, stop_insertion, stdin_eof, new_line,
                   buffer, ret, exit_status, exit_at, wrote, written, conv>>

\* CmdQ with a break where it returns: the quit is noted and the scan goes on
CmdQBreak ==
    /\ Scanning
    /\ ret' = <<-3>>
    /\ Says(<<>>)
    /\ Advance
    /\ NoSession
    /\ UNCHANGED <<file, heap, start, lines, stop_insertion, stdin_eof, new_line,
                   buffer, exit_status, exit_at, wrote, written, conv>>

\* case 'q': return -3; main goes to end and destroys the buffer
CmdQ ==
    /\ Scanning
    /\ ret' = <<-3>>
    /\ Says(<<>>)
    /\ pc' = "end"
    /\ LET gone == destroy_lines(lnext, start)
       IN  /\ freed' = freed \cup gone
           /\ lnext' = Scrub(lnext, gone, NULL)
           /\ lprev' = Scrub(lprev, gone, NULL)
           /\ ldata' = Scrub(ldata, gone, <<>>)
    /\ NoSession
    /\ UNCHANGED <<file, nextId, start, lines, stop_insertion, s, stdin_eof,
                   new_line, buffer, exit_status, exit_at, wrote, written, conv>>

\* ------------------------------------------------------------- insert_line

InsPcs == {"ins_loop", "ins_read", "ins_check"}

\* insert_entry_flag without the assignment: the flag is left as it was
insert_entry_keep(flag) == flag

\* insert_line, on entry: what stop_insertion is set to
insert_entry_flag(flag) == 0

\* case 'i': insert_line is entered and clears stop_insertion
CmdI ==
    /\ Scanning
    /\ stop_insertion' = insert_entry_flag(stop_insertion)
    /\ pc' = "ins_loop"
    /\ Says(<<>>)
    /\ sess_cur' = lines
    /\ sess_buf' = BufferIds
    /\ sess_pre' = stop_insertion
    /\ sess_sig' = FALSE
    /\ committed' = <<>>
    /\ dropped' = NULL
    /\ UNCHANGED <<file, heap, start, lines, s, stdin_eof, new_line, buffer, ret,
                   exit_status, exit_at, wrote, written, conv>>

\* insert_line returns: the for loop of run_instructions goes on after the 'i'
InsReturn ==
    /\ Advance
    /\ new_line' = NULL

\* while (!stop_insertion): a record is allocated for the next line, or the
\* loop is left
InsLoop ==
    /\ pc = "ins_loop"
    /\ IF stop_insertion = 0
       THEN /\ nextId <= MaxId
            /\ new_line' = nextId
            /\ nextId' = nextId + 1
            /\ pc' = "ins_read"
            /\ UNCHANGED s
       ELSE /\ InsReturn
            /\ UNCHANGED nextId
    /\ Says(<<>>)
    /\ UNCHANGED <<file, lnext, lprev, ldata, freed, start, lines, stop_insertion,
                   stdin_eof, buffer, ret, exit_status, exit_at, hist, conv>>

\* getline() returns a line of text, ended by a newline or by end-of-input
InsGetline ==
    /\ pc = "ins_read"
    /\ ~stdin_eof
    /\ \E txt \in InsLines, nl \in BOOLEAN :
          /\ (~nl) => txt # <<>>
          /\ buffer' = txt \o (IF nl THEN <<NL, NUL>> ELSE <<NUL>>)
          /\ stdin_eof' = ~nl
    /\ pc' = "ins_check"
    /\ UNCHANGED <<file, heap, start, lines, stop_insertion, s, new_line, ret, io,
                   exit_status, exit_at, hist, conv>>

\* getline() fails: exit(EXIT_FAILURE)
InsEof ==
    /\ pc = "ins_read"
    /\ Says(<<>>)
    /\ Exit(EXIT_FAILURE, "insert")
    /\ stdin_eof' = TRUE
    /\ UNCHANGED <<file, wrote, written, conv>>

\* insert_link without the last assignment: current stays where it was
insert_link_stay(st, cur, nl, buf) ==
    IF cur = NULL
    THEN [lnext |-> [lnext EXCEPT ![nl] = NULL],
          lprev |-> [lprev EXCEPT ![nl] = NULL],
          ldata |-> [ldata EXCEPT ![nl] = charray_to_line(buf)],
          start |-> nl, line |-> nl]
    ELSE [lnext |-> [lnext EXCEPT ![nl] = lnext[cur], ![cur] = nl],
          lprev |-> IF lnext[cur] # NULL
                    THEN [lprev EXCEPT ![nl] = cur, ![lnext[cur]] = nl]
                    ELSE [lprev EXCEPT ![nl] = cur],
          ldata |-> [ldata EXCEPT ![nl] = charray_to_line(buf)],
          start |-> st, line |-> cur]

\* insert_link without *start = *line: the first line of an empty buffer is
\* made current, and start is left NULL
insert_link_no_start(st, cur, nl, buf) ==
    IF cur = NULL
    THEN [lnext |-> [lnext EXCEPT ![nl] = NULL],
          lprev |-> [lprev EXCEPT ![nl] = NULL],
          ldata |-> [ldata EXCEPT ![nl] = charray_to_line(buf)],
          start |-> st, line |-> nl]
    ELSE [lnext |-> [lnext EXCEPT ![nl] = lnext[cur], ![cur] = nl],
          lprev |-> IF lnext[cur] # NULL
                    THEN [lprev EXCEPT ![nl] = cur, ![lnext[cur]] = nl]
                    ELSE [lprev EXCEPT ![nl] = cur],
          ldata |-> [ldata EXCEPT ![nl] = charray_to_line(buf)],
          start |-> st, line |-> nl]

\* insert_link without (*line)->next->prev = new_line: the line after the new
\* one still points back at the line before it
insert_link_no_backlink(st, cur, nl, buf) ==
    IF cur = NULL
    THEN [lnext |-> [lnext EXCEPT ![nl] = NULL],
          lprev |-> [lprev EXCEPT ![nl] = NULL],
          ldata |-> [ldata EXCEPT ![nl] = charray_to_line(buf)],
          start |-> nl, line |-> nl]
    ELSE [lnext |-> [lnext EXCEPT ![nl] = lnext[cur], ![cur] = nl],
          lprev |-> [lprev EXCEPT ![nl] = cur],
          ldata |-> [ldata EXCEPT ![nl] = charray_to_line(buf)],
          start |-> st, line |-> nl]

\* insert_link with new_line->next = NULL: the lines after current are cut off
insert_link_no_next(st, cur, nl, buf) ==
    IF cur = NULL
    THEN [lnext |-> [lnext EXCEPT ![nl] = NULL],
          lprev |-> [lprev EXCEPT ![nl] = NULL],
          ldata |-> [ldata EXCEPT ![nl] = charray_to_line(buf)],
          start |-> nl, line |-> nl]
    ELSE [lnext |-> [lnext EXCEPT ![nl] = NULL, ![cur] = nl],
          lprev |-> IF lnext[cur] # NULL
                    THEN [lprev EXCEPT ![nl] = cur, ![lnext[cur]] = nl]
                    ELSE [lprev EXCEPT ![nl] = cur],
          ldata |-> [ldata EXCEPT ![nl] = charray_to_line(buf)],
          start |-> st, line |-> nl]

\* insert_line, the commit: the chain is built and the record nl is linked in
\* after cur, or becomes the whole buffer when cur is NULL
insert_link(st, cur, nl, buf) ==
    IF cur = NULL
    THEN [lnext |-> [lnext EXCEPT ![nl] = NULL],
          lprev |-> [lprev EXCEPT ![nl] = NULL],
          ldata |-> [ldata EXCEPT ![nl] = charray_to_line(buf)],
          start |-> nl, line |-> nl]
    ELSE [lnext |-> [lnext EXCEPT ![nl] = lnext[cur], ![cur] = nl],
          lprev |-> IF lnext[cur] # NULL
                    THEN [lprev EXCEPT ![nl] = cur, ![lnext[cur]] = nl]
                    ELSE [lprev EXCEPT ![nl] = cur],
          ldata |-> [ldata EXCEPT ![nl] = charray_to_line(buf)],
          start |-> st, line |-> nl]

\* insert_poll without the test: the flag is looked at by the while alone
insert_poll_never(flag) == FALSE

\* insert_line, the poll after getline(): whether the line read is discarded
insert_poll(flag) == flag # 0

\* if (stop_insertion) after getline(): the line is dropped and the loop left,
\* or the line is committed and the loop goes round
InsCheck ==
    /\ pc = "ins_check"
    /\ IF insert_poll(stop_insertion)
       THEN /\ InsReturn
            /\ dropped' = new_line
            /\ UNCHANGED <<lnext, lprev, ldata, start, lines, committed>>
       ELSE /\ LET r == insert_link(start, lines, new_line, buffer)
               IN  /\ lnext' = r.lnext
                   /\ lprev' = r.lprev
                   /\ ldata' = r.ldata
                   /\ start' = r.start
                   /\ lines' = r.line
            /\ committed' = Append(committed, <<new_line, buffer>>)
            /\ pc' = "ins_loop"
            /\ UNCHANGED <<s, new_line, dropped>>
    /\ buffer' = <<>>
    /\ Says(<<>>)
    /\ UNCHANGED <<file, nextId, freed, stop_insertion, stdin_eof, ret,
                   exit_status, exit_at, wrote, written, sess_cur, sess_buf, sess_pre,
                   sess_sig, conv>>

\* sigint_handler: runs between any two steps once main has installed it
Sigint ==
    /\ pc \in {"prompt", "scan", "end"} \cup InsPcs
    /\ stop_insertion' = 1
    /\ sess_sig' = (sess_sig \/ pc \in InsPcs)
    /\ UNCHANGED <<file, heap, start, lines, pc, s, stdin_eof, new_line, buffer,
                   ret, io, exit_status, exit_at, wrote, written, sess_cur,
                   sess_buf, sess_pre, committed, dropped, conv>>

\* ------------------------------------------------------------- delete_line

\* delete_line with the second and third ifs made else-branches of the first:
\* the next line is preferred to the previous one
delete_line_next_first(st, line) ==
    IF line = NULL
    THEN [start |-> st, lnext |-> lnext, lprev |-> lprev, ldata |-> ldata,
          freed |-> freed, ret |-> NULL]
    ELSE LET nx   == lnext[line]
             pv   == lprev[line]
             lprev1 == IF nx # NULL THEN [lprev EXCEPT ![nx] = pv] ELSE lprev
             lnext1 == IF pv # NULL THEN [lnext EXCEPT ![pv] = nx] ELSE lnext
         IN  [start |-> IF st = line THEN nx ELSE st,
              lnext |-> Scrub(lnext1, {line}, NULL),
              lprev |-> Scrub(lprev1, {line}, NULL),
              ldata |-> Scrub(ldata, {line}, <<>>),
              freed |-> freed \cup {line},
              ret   |-> IF nx # NULL THEN nx ELSE IF pv # NULL THEN pv ELSE NULL]

\* delete_line without the last if: deleting the only line returns the line
\* itself
delete_line_dangling(st, line) ==
    IF line = NULL
    THEN [start |-> st, lnext |-> lnext, lprev |-> lprev, ldata |-> ldata,
          freed |-> freed, ret |-> NULL]
    ELSE LET nx   == lnext[line]
             pv   == lprev[line]
             ret1 == IF nx # NULL THEN nx ELSE line
             ret2 == IF pv # NULL THEN pv ELSE ret1
             lprev1 == IF nx # NULL THEN [lprev EXCEPT ![nx] = pv] ELSE lprev
             lnext1 == IF pv # NULL THEN [lnext EXCEPT ![pv] = nx] ELSE lnext
         IN  [start |-> IF st = line THEN nx ELSE st,
              lnext |-> Scrub(lnext1, {line}, NULL),
              lprev |-> Scrub(lprev1, {line}, NULL),
              ldata |-> Scrub(ldata, {line}, <<>>),
              freed |-> freed \cup {line},
              ret   |-> ret2]

\* delete_line without line->prev->next = line->next: the previous line still
\* points at the deleted line
delete_line_no_relink(st, line) ==
    IF line = NULL
    THEN [start |-> st, lnext |-> lnext, lprev |-> lprev, ldata |-> ldata,
          freed |-> freed, ret |-> NULL]
    ELSE LET nx   == lnext[line]
             pv   == lprev[line]
             ret1 == IF nx # NULL THEN nx ELSE NULL
             ret2 == IF pv # NULL THEN pv ELSE ret1
             ret3 == IF nx = NULL /\ pv = NULL THEN NULL ELSE ret2
             lprev1 == IF nx # NULL THEN [lprev EXCEPT ![nx] = pv] ELSE lprev
         IN  [start |-> IF st = line THEN nx ELSE st,
              lnext |-> Scrub(lnext, {line}, NULL),
              lprev |-> Scrub(lprev1, {line}, NULL),
              ldata |-> Scrub(ldata, {line}, <<>>),
              freed |-> freed \cup {line},
              ret   |-> ret3]

\* delete_line without the first if: start is left where it was
delete_line_keep_start(st, line) ==
    IF line = NULL
    THEN [start |-> st, lnext |-> lnext, lprev |-> lprev, ldata |-> ldata,
          freed |-> freed, ret |-> NULL]
    ELSE LET nx   == lnext[line]
             pv   == lprev[line]
             ret1 == IF nx # NULL THEN nx ELSE NULL
             ret2 == IF pv # NULL THEN pv ELSE ret1
             ret3 == IF nx = NULL /\ pv = NULL THEN NULL ELSE ret2
             lprev1 == IF nx # NULL THEN [lprev EXCEPT ![nx] = pv] ELSE lprev
             lnext1 == IF pv # NULL THEN [lnext EXCEPT ![pv] = nx] ELSE lnext
         IN  [start |-> st,
              lnext |-> Scrub(lnext1, {line}, NULL),
              lprev |-> Scrub(lprev1, {line}, NULL),
              ldata |-> Scrub(ldata, {line}, <<>>),
              freed |-> freed \cup {line},
              ret   |-> ret3]

\* delete_line without line->next->prev = line->prev: the next line still
\* points back at the deleted line
delete_line_no_backlink(st, line) ==
    IF line = NULL
    THEN [start |-> st, lnext |-> lnext, lprev |-> lprev, ldata |-> ldata,
          freed |-> freed, ret |-> NULL]
    ELSE LET nx   == lnext[line]
             pv   == lprev[line]
             ret1 == IF nx # NULL THEN nx ELSE NULL
             ret2 == IF pv # NULL THEN pv ELSE ret1
             ret3 == IF nx = NULL /\ pv = NULL THEN NULL ELSE ret2
             lnext1 == IF pv # NULL THEN [lnext EXCEPT ![pv] = nx] ELSE lnext
         IN  [start |-> IF st = line THEN nx ELSE st,
              lnext |-> Scrub(lnext1, {line}, NULL),
              lprev |-> Scrub(lprev, {line}, NULL),
              ldata |-> Scrub(ldata, {line}, <<>>),
              freed |-> freed \cup {line},
              ret   |-> ret3]

\* delete_line: start moves off the line, the neighbours are linked to each
\* other, the line is destroyed.  ret is assigned by each of the three ifs in
\* turn, so the last one that applies decides it.
delete_line(st, line) ==
    IF line = NULL
    THEN [start |-> st, lnext |-> lnext, lprev |-> lprev, ldata |-> ldata,
          freed |-> freed, ret |-> NULL]
    ELSE LET nx   == lnext[line]
             pv   == lprev[line]
             ret1 == IF nx # NULL THEN nx ELSE NULL
             ret2 == IF pv # NULL THEN pv ELSE ret1
             ret3 == IF nx = NULL /\ pv = NULL THEN NULL ELSE ret2
             lprev1 == IF nx # NULL THEN [lprev EXCEPT ![nx] = pv] ELSE lprev
             lnext1 == IF pv # NULL THEN [lnext EXCEPT ![pv] = nx] ELSE lnext
         IN  [start |-> IF st = line THEN nx ELSE st,
              lnext |-> Scrub(lnext1, {line}, NULL),
              lprev |-> Scrub(lprev1, {line}, NULL),
              ldata |-> Scrub(ldata, {line}, <<>>),
              freed |-> freed \cup {line},
              ret   |-> ret3]

\* case 'd': *lines = delete_line(start, *lines)
CmdD ==
    /\ Scanning
    /\ LET r == delete_line(start, lines)
       IN  /\ start' = r.start
           /\ lnext' = r.lnext
           /\ lprev' = r.lprev
           /\ ldata' = r.ldata
           /\ freed' = r.freed
           /\ lines' = r.ret
    /\ out' = <<>>
    /\ deleted' = IF lines = NULL THEN <<>> ELSE <<lines, lprev[lines], lnext[lines]>>
    /\ Advance
    /\ NoSession
    /\ UNCHANGED <<file, nextId, stop_insertion, stdin_eof, new_line, buffer,
                   ret, exit_status, exit_at, wrote, written, conv>>

\* ------------------------------------------------------------- the editor

Next ==
    \/ ReadLines
    \/ MainGetline
    \/ MainEof
    \/ MainEnd
    \/ ScanEnd
    \/ CmdN
    \/ CmdB
    \/ CmdP
    \/ CmdI
    \/ CmdL
    \/ CmdD
    \/ CmdQ
    \/ CmdW
    \/ CmdH
    \/ CmdDefault
    \/ InsLoop
    \/ InsGetline
    \/ InsEof
    \/ InsCheck
    \/ Sigint

Spec == Init /\ [][Next]_vars

\* ------------------------------------------------------------- the converters

\* A line of text L, ended by a newline or by the end of the string
ConvInit ==
    /\ file = NoFile
    /\ pc = "conv"
    /\ Fresh
    /\ conv_pc = "src"
    /\ conv_L \in SeqUpTo(ConvChars, MaxConvLen)
    /\ conv_term \in {<<NL, NUL>>, <<NUL>>}
    /\ conv_chain = <<>>
    /\ conv_text = <<>>

\* charray_to_line on the line
ConvToLine ==
    /\ conv_pc = "src"
    /\ conv_chain' = charray_to_line(conv_L \o conv_term)
    /\ conv_pc' = "chain"
    /\ UNCHANGED <<file, proc, pc, stdin_eof, io, exit_status, exit_at, hist,
                   conv_L, conv_term, conv_text>>

\* lines_to_charray on the chain
ConvToCharray ==
    /\ conv_pc = "chain"
    /\ conv_text' = lines_to_charray(conv_chain)
    /\ conv_pc' = "text"
    /\ UNCHANGED <<file, proc, pc, stdin_eof, io, exit_status, exit_at, hist,
                   conv_L, conv_term, conv_chain>>

ConvNext ==
    \/ ConvToLine
    \/ ConvToCharray

SpecConv == ConvInit /\ [][ConvNext]_vars

\* ------------------------------------------------------------- properties

\* The records the insertion session committed, in the order committed
SessIds == [i \in 1..Len(committed) |-> committed[i][1]]

\* The text typed for a line: the bytes getline() returned, less the newline
\* and the terminator
Typed(buf) == SelectSeq(buf, LAMBDA c : c # NL /\ c # NUL)

\* Where record l stands in the buffer (0 when it is not in it)
PosOf(l) ==
    IF \E i \in 1..Len(BufferIds) : BufferIds[i] = l
    THEN CHOOSE i \in 1..Len(BufferIds) : BufferIds[i] = l
    ELSE 0

\* The lines the session committed stand in the buffer in the order typed,
\* right after the line that was current when the session began, each holding
\* the text typed for it and a space, and current is the last of them
SessInPlace ==
    committed # <<>> =>
        LET k == Len(committed)
            p == PosOf(lines)
        IN  /\ lines = SessIds[k]
            /\ p >= k
            /\ SubSeq(BufferIds, p - k + 1, p) = SessIds
            /\ \A i \in 1..k :
                  ldata[SessIds[i]] = Typed(committed[i][2]) \o <<SPACE>>
            /\ IF sess_cur = NULL
               THEN p = k
               ELSE p > k /\ BufferIds[p - k] = sess_cur

\* What 'l' writes for the lines the session committed
RECURSIVE SessListing(_)
SessListing(i) ==
    IF i > Len(committed) THEN <<>>
    ELSE Typed(committed[i][2]) \o <<SPACE, NL>> \o SessListing(i + 1)

C2_RoundTrip ==
    wrote => read_loop(FileBytes) = written

\* C3 (as written): end-of-input at the prompt exits with success, a clean 'q'
\* exits with success, end-of-input in insertion mode exits with failure.
C3_EofSuccess ==
    pc = "done" =>
        /\ exit_at = "prompt" => exit_status = <<EXIT_SUCCESS>>
        /\ exit_at = "end"    => exit_status = <<EXIT_SUCCESS>>
        /\ exit_at = "insert" => exit_status = <<EXIT_FAILURE>>

\* C3 (amended): end-of-input at the prompt exits with failure, a clean 'q'
\* exits with success, end-of-input in insertion mode exits with failure.
C3_EofFailure ==
    pc = "done" =>
        /\ exit_at \in {"prompt", "end", "insert"}
        /\ exit_at = "prompt" => exit_status = <<EXIT_FAILURE>>
        /\ exit_at = "end"    => exit_status = <<EXIT_SUCCESS>>
        /\ exit_at = "insert" => exit_status = <<EXIT_FAILURE>>

\* C3 witness: the process has ended on end-of-input at the prompt
C3_Witness ==
    /\ pc = "done"
    /\ exit_at = "prompt"

\* C4: 'n' with current empty or on the last line returns -1 (EndOfBuffer) and
\* changes neither current, start nor the buffer; 'b' with current empty or on
\* the first line returns -2 (StartOfBuffer) likewise; otherwise they move
\* current to exactly the next or previous line and the scan goes on.  After a
\* failure main prompts again.
C4_Bounds ==
    [][ /\ CmdN =>
             IF lines = NULL \/ lnext[lines] = NULL
             THEN /\ ret' = <<-1>>
                  /\ out' = <<"E", "O", "F">>
                  /\ pc' = "prompt"
                  /\ UNCHANGED <<lines, start, lnext, lprev, ldata, freed>>
             ELSE /\ lines' = lnext[lines]
                  /\ lines' # NULL
                  /\ pc' = "scan"
                  /\ ret' = <<>>
                  /\ UNCHANGED <<start, lnext, lprev, ldata, freed>>
        /\ CmdB =>
             IF lines = NULL \/ lprev[lines] = NULL
             THEN /\ ret' = <<-2>>
                  /\ out' = <<"S", "T", "A", "R", "T">>
                  /\ pc' = "prompt"
                  /\ UNCHANGED <<lines, start, lnext, lprev, ldata, freed>>
             ELSE /\ lines' = lprev[lines]
                  /\ lines' # NULL
                  /\ pc' = "scan"
                  /\ ret' = <<>>
                  /\ UNCHANGED <<start, lnext, lprev, ldata, freed>>
      ]_vars

\* C4 witness: 'n' on the last line of a non-empty buffer has returned -1
C4_Witness ==
    /\ pc = "prompt"
    /\ ret = <<-1>>
    /\ lines # NULL
    /\ lnext[lines] = NULL

\* C5: the first 'n' or 'b' that fails ends the scan of the command line: it
\* changes nothing that the commands before it did, and the characters after
\* it are never executed (the next step of main reads a new line or exits).
C5_FailStops ==
    [][ /\ (Scanning /\ ret' \in {<<-1>>, <<-2>>}) =>
             /\ pc' = "prompt"
             /\ s' = s
             /\ UNCHANGED <<file, heap, start, lines>>
        /\ (pc = "prompt" /\ ret \in {<<-1>>, <<-2>>}) =>
             /\ pc' \in {"prompt", "scan", "done"}
             /\ pc' = "prompt" => UNCHANGED <<file, heap, start, lines, s, ret>>
             /\ pc' = "scan" => out' = PROMPT /\ UNCHANGED <<file, heap, start, lines>>
             /\ pc' = "done" => exit_at' = "prompt" /\ UNCHANGED file
      ]_vars

\* C5 witness: 'b' failed with command characters after it in the line
C5_Witness ==
    /\ pc = "prompt"
    /\ ret = <<-2>>
    /\ s > 1

\* C6: 'q' returns -3 at once: nothing after it in the line is executed, the
\* file is not written again, and the process ends without reading another
\* command line.
C6_QuitStops ==
    [][ /\ (Scanning /\ ret' = <<-3>>) =>
             /\ pc' = "end"
             /\ s' = s
             /\ UNCHANGED file
        /\ pc = "end" =>
             /\ pc' \in {"end", "done"}
             /\ pc' = "end" => UNCHANGED <<file, heap, start, lines, s, ret>>
             /\ pc' = "done" => /\ exit_at' = "end"
                                /\ exit_status' = <<EXIT_SUCCESS>>
                                /\ UNCHANGED file
        /\ pc # "done"
      ]_vars

\* C6 witness: 'q' has returned with command characters after it in the line
C6_Witness ==
    /\ pc = "end"
    /\ ret = <<-3>>
    /\ s > 1

\* C7: when the flag is set at the poll that follows getline(), the line read
\* is not linked into the buffer, the loop is left, and the lines committed
\* earlier in the session stay in the buffer in order, current on the last.
C7_CancelDrops ==
    [][ (pc = "ins_check" /\ stop_insertion # 0 /\ pc' # "ins_check") =>
             /\ pc' = "scan"
             /\ s' = s - 1
             /\ UNCHANGED <<lnext, lprev, ldata, start, lines, freed, committed>>
             /\ new_line \notin Range(BufferIds')
             /\ SessInPlace'
      ]_vars

\* C7 witness: a session that had committed a line has discarded the next one
C7_Witness ==
    /\ dropped # NULL
    /\ committed # <<>>
    /\ pc = "scan"

\* C8: the flag is cleared when an insertion session begins, whatever it was:
\* as long as no interrupt arrives during the session the flag is clear in it,
\* no line is discarded, and each line read (the first one too) is inserted.
C8_FlagCleared ==
    /\ [](/\ (pc \in InsPcs /\ ~sess_sig) => stop_insertion = 0
          /\ dropped # NULL => sess_sig)
    /\ [][ (pc = "ins_check" /\ ~sess_sig /\ pc' # "ins_check") =>
             /\ committed' = Append(committed, <<new_line, buffer>>)
             /\ lines' = new_line
             /\ new_line \in Range(BufferIds')
             /\ pc' = "ins_loop"
         ]_vars

\* C8 witness: a session entered with the flag set by an earlier interrupt has
\* committed the first line it read
C8_Witness ==
    /\ pc = "ins_loop"
    /\ sess_pre # 0
    /\ ~sess_sig
    /\ Len(committed) = 1

\* C9: charray_to_line and then lines_to_charray turn a line of text L into L,
\* one space, one newline; the chain of the empty line is a single space.
C9_ChainRoundTrip ==
    /\ conv_pc \in {"chain", "text"} =>
          /\ conv_chain = conv_L \o <<SPACE>>
          /\ conv_L = <<>> => conv_chain = <<SPACE>>
    /\ conv_pc = "text" =>
          /\ conv_text = conv_L \o <<SPACE, NL, NUL>>
          /\ CStr(conv_text) = conv_L \o <<SPACE, NL>>

\* C9 witness: a line of text ended by the end of the string has been
\* converted there and back
C9_Witness ==
    /\ conv_pc = "text"
    /\ Len(conv_L) >= 2
    /\ conv_term = <<NUL>>

C11_DeleteOnlyLine ==
    /\ []((deleted # <<>> /\ deleted[2] = NULL /\ deleted[3] = NULL) =>
            /\ start = NULL
            /\ lines = NULL
            /\ BufferIds = <<>>
            /\ deleted[1] \in freed)
    /\ [][ (Scanning /\ start = NULL /\ lines = NULL) =>
             /\ CmdP => /\ out' = <<NL>>
                        /\ pc' = "scan"
                        /\ UNCHANGED <<heap, start, lines>>
             /\ CmdD => /\ deleted' = <<>>
                        /\ pc' = "scan"
                        /\ UNCHANGED <<heap, start, lines>>
             /\ CmdN => /\ ret' = <<-1>>
                        /\ out' = <<"E", "O", "F">>
                        /\ UNCHANGED <<heap, start, lines>>
             /\ CmdB => /\ ret' = <<-2>>
                        /\ out' = <<"S", "T", "A", "R", "T">>
                        /\ UNCHANGED <<heap, start, lines>>
         ]_vars

\* C11 witness: the only line of a one-line buffer has just been deleted, and
\* a command character follows the 'd' in the line
C11_Witness ==
    /\ deleted # <<>>
    /\ deleted[2] = NULL
    /\ deleted[3] = NULL
    /\ pc = "scan"
    /\ s > 0

\* C12: after 'd' on a line with a previous line P and a next line N, P's next
\* is N and N's previous is P, both are in the buffer with N right after P, and
\* the deleted line is not reachable from start; an 'n' that follows lands on N.
C12_Relink ==
    /\ []((deleted # <<>> /\ deleted[2] # NULL /\ deleted[3] # NULL) =>
            /\ lnext[deleted[2]] = deleted[3]
            /\ lprev[deleted[3]] = deleted[2]
            /\ PosOf(deleted[2]) > 0
            /\ PosOf(deleted[3]) = PosOf(deleted[2]) + 1
            /\ deleted[1] \notin Range(BufferIds)
            /\ lines = deleted[2])
    /\ [][ (deleted # <<>> /\ deleted[2] # NULL /\ deleted[3] # NULL /\ CmdN) =>
             /\ lines' = deleted[3]
             /\ lprev'[lines'] = deleted[2]
         ]_vars

\* C12 witness: a line between two others has just been deleted, its
\* neighbours are linked to each other, and a command character follows the
\* 'd' in the line
C12_Witness ==
    /\ deleted # <<>>
    /\ deleted[2] # NULL
    /\ deleted[3] # NULL
    /\ lnext[deleted[2]] = deleted[3]
    /\ pc = "scan"
    /\ s > 0

\* The editor is between two steps of its commands: the file is loaded and
\* the buffer has not been torn down
Editing == pc \in {"prompt", "scan"} \cup InsPcs

\* C13: while the editor runs its commands, a current line that is not NULL is
\* reached from start by following next, and start is not among the lines that
\* follow current.
C13_CurrentReachable ==
    (Editing /\ lines # NULL) =>
        /\ start # NULL
        /\ lines \in Range(BufferIds)
        /\ start \notin Range(Walk(lnext, lnext[lines], MaxId))

\* C13 witness: a line has been deleted, and current is a line of the buffer
\* other than start
C13_Witness ==
    /\ pc = "prompt"
    /\ lines # NULL
    /\ lines # start
    /\ Cardinality(freed) >= 2

\* The process has allocated one record only: read_lines read no line, and no
\* insertion has allocated a record since
LoadedEmpty == pc \in {"prompt", "scan", "end"} /\ nextId = 2

\* C14: when the file is missing or holds no line, the buffer loaded is empty:
\* start and current are NULL, there is no line at all, and the one record
\* read_lines allocated is freed.  'w' on it leaves the file empty, and 'q' on
\* it goes to the end of main, which exits with success.
C14_EmptySource ==
    /\ [](/\ (pc = "prompt" /\ ret = <<>> /\ file = <<>>) => LoadedEmpty
          /\ LoadedEmpty =>
                /\ start = NULL
                /\ lines = NULL
                /\ BufferIds = <<>>
                /\ freed = {1}
                /\ file = <<>>
                /\ wrote => written = <<>>)
    /\ [][ /\ (LoadedEmpty /\ CmdW) => (file' = <<>> /\ wrote' /\ pc' = "scan")
           /\ (LoadedEmpty /\ CmdQ) => (pc' = "end" /\ freed' = freed)
           /\ (pc = "end" /\ pc' # "end") =>
                 /\ pc' = "done"
                 /\ exit_status' = <<EXIT_SUCCESS>>
                 /\ file' = file
         ]_vars

\* C14 witness: a buffer loaded from a source with no line has been written
\* and 'q' has returned
C14_Witness ==
    /\ pc = "end"
    /\ nextId = 2
    /\ wrote
    /\ file = <<>>
    /\ ret = <<-3>>

\* C15: 'd' on a current line that is start moves start to that line's next
\* line (NULL when it had none); 'd' on any other line leaves start as it was.
\* Either way start is then the first of the lines that remain, it is not a
\* destroyed record, and when it is not NULL its prev is NULL.
C15_StartAfterDelete ==
    [][ (CmdD /\ lines # NULL) =>
          /\ start' = IF start = lines THEN lnext[lines] ELSE start
          /\ BufferIds' = SelectSeq(BufferIds, LAMBDA l : l # lines)
          /\ start' = IF Len(BufferIds) = 1 THEN NULL
                      ELSE Head(SelectSeq(BufferIds, LAMBDA l : l # lines))
          /\ start' \notin freed'
          /\ start' # NULL => lprev'[start'] = NULL
      ]_vars

\* C15 witness: the first line of a buffer of two lines or more has just been
\* deleted, and start is the line that was next to it
C15_Witness ==
    /\ deleted # <<>>
    /\ deleted[2] = NULL
    /\ deleted[3] # NULL
    /\ start = deleted[3]
    /\ pc = "scan"

\* C16: while the editor runs its commands the buffer is a well-formed doubly
\* linked list: the walk from start meets no record twice and ends on a NULL
\* next, the first line's prev is NULL, and each line is the prev of its next.
C16_WellFormed ==
    Editing =>
        LET n == Len(BufferIds)
        IN  /\ (start = NULL) <=> (n = 0)
            /\ \A i, j \in 1..n : i # j => BufferIds[i] # BufferIds[j]
            /\ n > 0 => /\ lprev[BufferIds[1]] = NULL
                        /\ lnext[BufferIds[n]] = NULL
            /\ \A i \in 1..(n - 1) :
                  /\ lnext[BufferIds[i]] = BufferIds[i + 1]
                  /\ lprev[BufferIds[i + 1]] = BufferIds[i]

\* C16 witness: every record has been allocated, by the load and by at least
\* one insertion, a line has been deleted, and two lines are left
C16_Witness ==
    /\ pc = "prompt"
    /\ nextId = MaxId + 1
    /\ Len(BufferIds) = 2
    /\ Cardinality(freed) = MaxId - 2

C18_Frame ==
    [][ /\ (CmdH \/ CmdDefault \/ CmdP \/ CmdL \/ CmdW) =>
              /\ UNCHANGED <<start, lines, lnext, lprev, ldata, nextId, freed>>
              /\ ret' = ret
              /\ pc' = "scan"
              /\ s' = s - 1
        /\ (<<start, lines, lnext, lprev, ldata>>'
               # <<start, lines, lnext, lprev, ldata>>) =>
              \/ pc = "main"
              \/ pc = "ins_check"
              \/ pc' \in {"end", "done"}
              \/ CmdN
              \/ CmdB
              \/ CmdD
      ]_vars

\* C18 witness: 'l' (or 'p' on a buffer of one line) has written the lines of
\* a buffer that is not empty, and a command character follows it in the line
C18_Witness ==
    /\ pc = "scan"
    /\ s > 0
    /\ start # NULL
    /\ out = lines_to_handle(lnext, ldata, start)

\* C19: while the editor runs its commands, start, current, every line reached
\* from start and the next and prev of each such line are records that have
\* not been freed: the walks of 'n', 'b', 'p', 'l', 'w', 'i' and 'd' read no
\* freed record, and the records destroy_lines would free are not freed yet.
C19_NoDangling ==
    Editing =>
        /\ start \notin freed
        /\ lines \notin freed
        /\ \A l \in Range(BufferIds) :
              /\ l \notin freed
              /\ lnext[l] \notin freed
              /\ lprev[l] \notin freed
        /\ destroy_lines(lnext, start) \cap freed = {}

\* C19 witness: after a 'd' destroyed a line, 'l' has walked the two lines
\* that are left
C19_Witness ==
    /\ pc = "scan"
    /\ Cardinality(freed) >= 2
    /\ Len(BufferIds) = 2
    /\ out = lines_to_handle(lnext, ldata, start)

\* The records MALLOC has returned for lines so far
Allocated == 1..(nextId - 1)

\* C20: at every prompt each line record allocated so far is in the buffer
\* reached from start or has been freed (the record allocated for a line that
\* a cancelled insertion discarded too), and after the teardown that follows
\* 'q' every record allocated has been freed.
C20_NoLeak ==
    /\ pc = "prompt" =>
          \A l \in Allocated : l \in Range(BufferIds) \/ l \in freed
    /\ dropped # NULL => dropped \in freed
    /\ pc = "end" => \A l \in Allocated : l \in freed

====
